---- MODULE Spec2Model ----
(***************************************************************************)
(* A model of the Game class of three_shapes_game.py: the registry of      *)
(* active / pending objects, the three dispatch phases (do_nearby_calls,   *)
(* do_move_calls, do_edge_calls) and draw().  The callbacks of the game    *)
(* objects (nearby, move, edge, draw) are the environment: each call may   *)
(* do nothing, call add_obj / remove_obj / set_game_over on the game, or   *)
(* move the object, and nearby() returns either boolean.                   *)
(***************************************************************************)
EXTENDS Integers, Sequences, FiniteSets

\* ------------------------------------------------------------------ bounds

\* number of object handles the environment may hand to the game
NumObjs == 3
\* side effects the callbacks of one phase call may perform in total
MaxEffects == 1

\* the window size given to the constructor
Wid == 3
Hei == 4

Objs == 1 .. NumObjs

\* the places an object may be at: three corners of a 3 x 4 rectangle, so that
\* every pairwise distance (0, 3, 4, 5) is an exact square root
Points == { <<0, 0>>, <<3, 0>>, <<0, 4>> }

VARIABLES
    active_objs,                \* self._active_objs
    pending_removes,            \* self._pending_removes
    pending_adds,               \* self._pending_adds
    account_for_radii_in_dist,  \* self._account_for_radii_in_dist
    game_over,                  \* self._game_over
    raised,                     \* the method whose assert failed, "" if none
    is_killed,                  \* self._win.is_killed
    xy,                         \* what o.get_xy() returns, per object
    pc,                         \* where the program is
    positions,                  \* do_nearby_calls: the local list positions
    distances,                  \* do_nearby_calls: the local list distances
    i,                          \* do_nearby_calls: the outer loop index
    k,                          \* do_nearby_calls: offset inside the slice
    todo,                       \* objects a for-loop over the set has yet to visit
    edges,                      \* do_edge_calls: edge() calls left for cur
    cur,                        \* do_edge_calls: the object being visited
    calls,                      \* calls made by the running / last operation
    effects                     \* side effects done by callbacks of this operation

vars == << active_objs, pending_removes, pending_adds,
           account_for_radii_in_dist, game_over, raised, is_killed, xy, pc,
           positions, distances, i, k, todo, edges, cur, calls, effects >>

locals == << positions, distances, i, k, todo, edges, cur >>

fields == << active_objs, pending_removes, pending_adds,
             account_for_radii_in_dist, game_over, raised >>

\* ------------------------------------------------------------- the object

\* o.get_radius(): fixed per object, 0 for even handles and 1 for odd ones
get_radius(o) == o % 2

\* -------------------------------------------------- the game as a record

\* The fields of the Game object that its methods read and write; raised
\* names the method when one of its asserts failed.
Self ==
    [ active_objs |-> active_objs,
      pending_removes |-> pending_removes,
      pending_adds |-> pending_adds,
      account_for_radii_in_dist |-> account_for_radii_in_dist,
      game_over |-> game_over,
      raised |-> raised ]

\* "assert False", or an assert whose condition is false, in method
Raise(g, method) == [g EXCEPT !.raised = method]

Store(g) ==
    /\ active_objs' = g.active_objs
    /\ pending_removes' = g.pending_removes
    /\ pending_adds' = g.pending_adds
    /\ account_for_radii_in_dist' = g.account_for_radii_in_dist
    /\ game_over' = g.game_over
    /\ raised' = g.raised

ParamNames == { "account_for_radii_in_dist", "unknownOption" }

\* config_set that takes every name for the radius option
config_set_any_name(g, param, val) ==
    [g EXCEPT !.account_for_radii_in_dist = val]

config_set(g, param, val) ==
    IF param = "account_for_radii_in_dist"
    THEN [g EXCEPT !.account_for_radii_in_dist = val]
    ELSE Raise(g, "config_set")

\* set_game_over that ends the method that is running
set_game_over_and_stop(g) == [g EXCEPT !.game_over = TRUE, !.raised = "set_game_over"]

set_game_over(g) == [g EXCEPT !.game_over = TRUE]

is_over == game_over

\* add_obj without its asserts
add_obj_unchecked(g, new_obj) ==
    [g EXCEPT !.pending_adds = @ \cup {new_obj}]

\* add_obj that puts the object into the active set at once
add_obj_at_once(g, new_obj) ==
    IF new_obj \in g.active_objs THEN Raise(g, "add_obj")
    ELSE IF new_obj \in g.pending_adds THEN Raise(g, "add_obj")
    ELSE [g EXCEPT !.active_objs = @ \cup {new_obj}]

add_obj(g, new_obj) ==
    IF new_obj \in g.active_objs THEN Raise(g, "add_obj")
    ELSE IF new_obj \in g.pending_adds THEN Raise(g, "add_obj")
    ELSE [g EXCEPT !.pending_adds = @ \cup {new_obj}]

\* remove_obj that takes the object out of the active set at once
remove_obj_at_once(g, bad_obj) ==
    IF bad_obj \notin g.active_objs THEN Raise(g, "remove_obj")
    ELSE [g EXCEPT !.active_objs = @ \ {bad_obj}]

\* remove_obj that takes an object that is pending-add for one in the game
remove_obj_pending_too(g, bad_obj) ==
    IF bad_obj \notin g.active_objs \cup g.pending_adds
    THEN Raise(g, "remove_obj")
    ELSE [g EXCEPT !.pending_removes = @ \cup {bad_obj}]

\* remove_obj that refuses an object that is pending-remove already
remove_obj_once(g, bad_obj) ==
    IF bad_obj \notin g.active_objs THEN Raise(g, "remove_obj")
    ELSE IF bad_obj \in g.pending_removes THEN Raise(g, "remove_obj")
    ELSE [g EXCEPT !.pending_removes = @ \cup {bad_obj}]

remove_obj(g, bad_obj) ==
    IF bad_obj \notin g.active_objs THEN Raise(g, "remove_obj")
    ELSE [g EXCEPT !.pending_removes = @ \cup {bad_obj}]

\* a reconciliation that keeps the set of pending removes
execute_keeps_removes(g) ==
    LET g1 == [g EXCEPT !.active_objs = @ \ g.pending_removes]
        g3 == [g1 EXCEPT !.active_objs = @ \cup g1.pending_adds]
    IN  [g3 EXCEPT !.pending_adds = {}]

\* a reconciliation that also takes the game back to running
execute_and_restart(g) ==
    LET g1 == [g EXCEPT !.active_objs = @ \ g.pending_removes]
        g2 == [g1 EXCEPT !.pending_removes = {}]
        g3 == [g2 EXCEPT !.active_objs = @ \cup g2.pending_adds]
    IN  [g3 EXCEPT !.pending_adds = {}, !.game_over = FALSE]

\* the reconciliation with the additions applied before the removals
execute_adds_then_removes(g) ==
    LET g1 == [g EXCEPT !.active_objs = @ \cup g.pending_adds]
        g2 == [g1 EXCEPT !.pending_adds = {}]
        g3 == [g2 EXCEPT !.active_objs = @ \ g2.pending_removes]
    IN  [g3 EXCEPT !.pending_removes = {}]

execute_adds_and_removes(g) ==
    LET g1 == [g EXCEPT !.active_objs = @ \ g.pending_removes]
        g2 == [g1 EXCEPT !.pending_removes = {}]
        g3 == [g2 EXCEPT !.active_objs = @ \cup g2.pending_adds]
    IN  [g3 EXCEPT !.pending_adds = {}]

\* ------------------------------------------------- what a callback may do

\* One call of nearby(), move(), edge() or draw() of an object does one of
\* these: nothing, game.add_obj(obj), game.remove_obj(obj),
\* game.set_game_over(), or it moves the object it is called on to pt.
NoEffect == [op |-> "none", obj |-> 0, pt |-> <<0, 0>>]

\* callbacks that use the registry of the game
RegistryEffects ==
    {NoEffect}
    \cup { [op |-> "add_obj", obj |-> e, pt |-> <<0, 0>>] : e \in Objs }
    \cup { [op |-> "remove_obj", obj |-> e, pt |-> <<0, 0>>] : e \in Objs }
    \cup { [op |-> "set_game_over", obj |-> 0, pt |-> <<0, 0>>] }

\* callbacks that move their object
MotionEffects ==
    {NoEffect} \cup { [op |-> "set_xy", obj |-> 0, pt |-> p] : p \in Points }

Effects == RegistryEffects \cup MotionEffects

\* the game after the callback's call on it
ApplyEffect(g, eff) ==
    CASE eff.op = "add_obj" -> add_obj(g, eff.obj)
      [] eff.op = "remove_obj" -> remove_obj(g, eff.obj)
      [] eff.op = "set_game_over" -> set_game_over(g)
      [] OTHER -> g

\* the positions after a callback of object o
MoveTo(o, eff) ==
    IF eff.op = "set_xy" THEN [xy EXCEPT ![o] = eff.pt] ELSE xy

\* a callback of object o runs with effect eff
Callback(o, eff) ==
    /\ eff \in Effects
    /\ eff.op # "none" => effects < MaxEffects
    /\ effects' = IF eff.op = "none" THEN effects ELSE effects + 1
    /\ xy' = MoveTo(o, eff)
    /\ Store(ApplyEffect(Self, eff))

\* ---------------------------------------------------- do_nearby_calls, pure

\* the orders of a loop that also takes the objects that are pending-add
OrdersWithPending(S) ==
    { f \in [1 .. Cardinality(S \cup pending_adds) -> S \cup pending_adds] :
        \A a, b \in 1 .. Cardinality(S \cup pending_adds) : a # b => f[a] # f[b] }

\* the orders in which "for o in self._active_objs" may enumerate set S
Orders(S) ==
    { f \in [1 .. Cardinality(S) -> S] :
        \A a, b \in 1 .. Cardinality(S) : a # b => f[a] # f[b] }

\* the list positions, for the enumeration order
Snapshot(order, pos) ==
    [m \in 1 .. Len(order) |-> << order[m], pos[order[m]][1], pos[order[m]][2] >>]

\* math.sqrt on the squares that occur
Sqrt(v) == CHOOSE r \in 0 .. v : r * r = v

\* dist with the radius of the first object of the pair subtracted twice
PairDistOneRadius(posns, radii, ii, jj) ==
    LET p1 == posns[ii + 1]
        p2 == posns[jj + 1]
        d  == Sqrt((p1[2] - p2[2]) * (p1[2] - p2[2])
                   + (p1[3] - p2[3]) * (p1[3] - p2[3]))
    IN  IF radii THEN d - get_radius(p1[1]) - get_radius(p1[1]) ELSE d

\* dist of the pair positions[i], positions[j] (indices from 0, as in the code)
PairDist(posns, radii, ii, jj) ==
    LET p1 == posns[ii + 1]
        p2 == posns[jj + 1]
        d  == Sqrt((p1[2] - p2[2]) * (p1[2] - p2[2])
                   + (p1[3] - p2[3]) * (p1[3] - p2[3]))
    IN  IF radii THEN d - get_radius(p1[1]) - get_radius(p2[1]) ELSE d

\* the loop body with the first append only
PairRecordsOnce(posns, radii, ii, jj) ==
    << <<ii, PairDist(posns, radii, ii, jj), jj>> >>

\* the two records the loop body appends for the pair (i, j)
PairRecords(posns, radii, ii, jj) ==
    LET dist == PairDist(posns, radii, ii, jj)
    IN  << <<ii, dist, jj>>, <<jj, dist, ii>> >>

RECURSIVE InnerLoop(_, _, _, _)
InnerLoop(posns, radii, ii, jj) ==
    IF jj >= Len(posns) THEN << >>
    ELSE PairRecords(posns, radii, ii, jj) \o InnerLoop(posns, radii, ii, jj + 1)

RECURSIVE OuterLoop(_, _, _)
OuterLoop(posns, radii, ii) ==
    IF ii >= Len(posns) THEN << >>
    ELSE InnerLoop(posns, radii, ii, ii + 1) \o OuterLoop(posns, radii, ii + 1)

\* an order that puts the larger distance first
TupleLessFarFirst(a, b) ==
    \/ a[1] < b[1]
    \/ a[1] = b[1] /\ a[2] > b[2]
    \/ a[1] = b[1] /\ a[2] = b[2] /\ a[3] < b[3]

\* the order of Python tuples (i, dist, j)
TupleLess(a, b) ==
    \/ a[1] < b[1]
    \/ a[1] = b[1] /\ a[2] < b[2]
    \/ a[1] = b[1] /\ a[2] = b[2] /\ a[3] < b[3]

\* insert record e into the sorted list s
RECURSIVE Insert(_, _)
Insert(e, s) ==
    IF s = << >> THEN << e >>
    ELSE IF TupleLess(e, Head(s)) THEN << e >> \o s
    ELSE << Head(s) >> \o Insert(e, Tail(s))

\* distances.sort()
RECURSIVE Sort(_)
Sort(s) == IF s = << >> THEN << >> ELSE Insert(Head(s), Sort(Tail(s)))

\* the list distances once built and sorted
Distances(posns, radii) == Sort(OuterLoop(posns, radii, 0))

\* the entry with its distance computed anew, from where the two objects
\* are when the entry is used
EntryMeasuredAnew(dists, n, ii, kk) ==
    LET e == dists[(n - 1) * ii + kk + 1]
        now == [m \in 1 .. Len(positions) |->
                  << positions[m][1], xy[positions[m][1]][1],
                     xy[positions[m][1]][2] >>]
    IN  << e[1], PairDist(now, account_for_radii_in_dist, e[1], e[3]), e[3] >>

\* distances[ (n-1)*i : (n-1)*(i+1) ][k]
Entry(dists, n, ii, kk) == dists[(n - 1) * ii + kk + 1]

\* the loops with "return" in the place of "break"
AdvanceReturnOnFalse(n, ii, kk, ret) ==
    IF ~ ret THEN << n, 0 >>
    ELSE IF kk + 1 < n - 1 THEN << ii, kk + 1 >> ELSE << ii + 1, 0 >>

\* the loop indices after the call for entry kk of slice ii returned ret:
\* the next entry of the slice, or on False ("break") or at the end of the
\* slice the first entry of the next slice
Advance(n, ii, kk, ret) ==
    IF ret /\ kk + 1 < n - 1 THEN << ii, kk + 1 >> ELSE << ii + 1, 0 >>

\* ------------------------------------------------------------ the program

\* an entry of calls: function fn called on obj
Call(fn, obj, other, side, val, ret) ==
    [fn |-> fn, obj |-> obj, other |-> other, side |-> side, val |-> val,
     ret |-> ret]

\* an entry of calls for a call that is not made on a game object
Step(fn) == Call(fn, 0, 0, "", 0, TRUE)

\* where the objects are when the program starts: (0,0), (3,0), (0,4), ...
StartXY ==
    [o \in Objs |->
        CASE o % 3 = 1 -> <<0, 0>>
          [] o % 3 = 2 -> <<3, 0>>
          [] OTHER -> <<0, 4>>]

\* Game.__init__, and no method running
Constructed ==
    /\ active_objs = {}
    /\ pending_removes = {}
    /\ pending_adds = {}
    /\ account_for_radii_in_dist = FALSE
    /\ game_over = FALSE
    /\ raised = ""
    /\ is_killed = FALSE
    /\ pc = "idle"
    /\ positions = << >>
    /\ distances = << >>
    /\ i = 0
    /\ k = 0
    /\ todo = {}
    /\ edges = << >>
    /\ cur = 0
    /\ calls = << >>
    /\ effects = 0

Init == Constructed /\ xy = StartXY

\* the running method has made its last call and returns
Return == pc' = "returned"

\* an assert failed: the AssertionError ends the program
Halt == pc' = "halted"

\* the caller of the game has control again: the locals of the method and
\* the record of its calls are gone
Returned ==
    /\ pc = "returned"
    /\ pc' = "idle"
    /\ positions' = << >>
    /\ distances' = << >>
    /\ i' = 0
    /\ k' = 0
    /\ todo' = {}
    /\ edges' = << >>
    /\ cur' = 0
    /\ calls' = << >>
    /\ effects' = 0
    /\ UNCHANGED << fields, is_killed, xy >>

\* the caller of the game calls a method that makes no callbacks
Method(g) ==
    /\ pc = "idle"
    /\ Store(g)
    /\ pc' = IF g.raised # "" THEN "halted" ELSE "idle"
    /\ UNCHANGED << is_killed, xy, locals, calls, effects >>

CallConfigSet(param, val) == Method(config_set(Self, param, val))

CallSetGameOver == Method(set_game_over(Self))

CallAddObj(new_obj) == Method(add_obj(Self, new_obj))

CallRemoveObj(bad_obj) == Method(remove_obj(Self, bad_obj))

\* the user closes the window (seen by the program between two calls)
KillWindow ==
    /\ pc = "idle"
    /\ ~ is_killed
    /\ is_killed' = TRUE
    /\ UNCHANGED << fields, xy, pc, locals, calls, effects >>

\* do_nearby_calls up to its first nearby() call: the snapshot in the
\* enumeration order of the set, the records, the sort, the count assert
DoNearbyCalls(order) ==
    /\ pc = "idle"
    /\ order \in Orders(active_objs)
    /\ LET posns == Snapshot(order, xy)
           dists == Distances(posns, account_for_radii_in_dist)
           n == Len(posns)
       IN  /\ positions' = posns
           /\ distances' = dists
           /\ i' = 0
           /\ k' = 0
           /\ IF Len(dists) # n * (n - 1)
              THEN Halt /\ raised' = "do_nearby_calls"
              ELSE /\ raised' = raised
                   /\ IF n * (n - 1) = 0 THEN Return ELSE pc' = "nearby"
    /\ calls' = << Step("do_nearby_calls") >>
    /\ UNCHANGED << active_objs, pending_removes, pending_adds,
                    account_for_radii_in_dist, game_over, is_killed, xy,
                    todo, edges, cur, effects >>

\* one pass of the inner loop body: the assert, the nearby() call (with
\* effect eff and result ret) and the move to the next entry
NearbyCall(eff, ret) ==
    /\ pc = "nearby"
    /\ LET n == Len(positions)
           entry == Entry(distances, n, i, k)
           k1 == entry[1]
           dist == entry[2]
           k2 == entry[3]
           left == positions[k1 + 1][1]
           right == positions[k2 + 1][1]
           next == Advance(n, i, k, ret)
       IN  IF k1 # i
           THEN /\ Halt
                /\ raised' = "do_nearby_calls"
                /\ UNCHANGED << active_objs, pending_removes, pending_adds,
                                account_for_radii_in_dist, game_over, xy,
                                calls, effects, i, k >>
           ELSE /\ Callback(left, eff)
                /\ calls' = Append(calls, Call("nearby", left, right, "", dist, ret))
                /\ IF ApplyEffect(Self, eff).raised # ""
                   THEN Halt /\ UNCHANGED << i, k >>
                   ELSE /\ i' = next[1]
                        /\ k' = next[2]
                        /\ IF next[1] < n THEN pc' = pc ELSE Return
    /\ UNCHANGED << is_killed, positions, distances, todo, edges, cur >>

\* do_move_calls up to its first move() call
DoMoveCalls ==
    /\ pc = "idle"
    /\ todo' = active_objs
    /\ IF active_objs = {} THEN Return ELSE pc' = "move"
    /\ calls' = << Step("do_move_calls") >>
    /\ UNCHANGED << fields, is_killed, xy, positions, distances, i, k,
                    edges, cur, effects >>

\* the loop body for the next object o of the set
MoveCall(o, eff) ==
    /\ pc = "move"
    /\ o \in todo
    /\ Callback(o, eff)
    /\ calls' = Append(calls, Call("move", o, 0, "", 0, TRUE))
    /\ IF ApplyEffect(Self, eff).raised # ""
       THEN Halt /\ todo' = todo
       ELSE /\ todo' = todo \ {o}
            /\ IF todo = {o} THEN Return ELSE pc' = pc
    /\ UNCHANGED << is_killed, positions, distances, i, k, edges, cur >>

\* the four tests with > in the place of >=
EdgeChecksStrict(x, y, rad) ==
    (IF x < rad THEN << <<"left", 0>> >> ELSE << >>)
    \o (IF y < rad THEN << <<"top", 0>> >> ELSE << >>)
    \o (IF x + rad > Wid THEN << <<"right", Wid>> >> ELSE << >>)
    \o (IF y + rad > Hei THEN << <<"bottom", Hei>> >> ELSE << >>)

\* do_edge_calls: the edge() calls the four tests select for an object at
\* (x, y) with radius rad, in the order of the tests
EdgeChecks(x, y, rad) ==
    (IF x < rad THEN << <<"left", 0>> >> ELSE << >>)
    \o (IF y < rad THEN << <<"top", 0>> >> ELSE << >>)
    \o (IF x + rad >= Wid THEN << <<"right", Wid>> >> ELSE << >>)
    \o (IF y + rad >= Hei THEN << <<"bottom", Hei>> >> ELSE << >>)

\* do_edge_calls up to the first object of its loop
DoEdgeCalls ==
    /\ pc = "idle"
    /\ todo' = active_objs
    /\ IF active_objs = {} THEN Return ELSE pc' = "edge"
    /\ calls' = << Step("do_edge_calls") >>
    /\ UNCHANGED << fields, is_killed, xy, positions, distances, i, k,
                    edges, cur, effects >>

\* the loop takes the next object o of the set, reads its x, y and radius
\* and makes the four tests
EdgeVisit(o) ==
    /\ pc = "edge"
    /\ edges = << >>
    /\ o \in todo
    /\ edges' = EdgeChecks(xy[o][1], xy[o][2], get_radius(o))
    /\ cur' = o
    /\ todo' = todo \ {o}
    /\ IF edges' = << >> /\ todo = {o} THEN Return ELSE pc' = pc
    /\ UNCHANGED << fields, is_killed, xy, positions, distances, i, k,
                    calls, effects >>

\* the next edge() call on the object being visited
EdgeCall(eff) ==
    /\ pc = "edge"
    /\ edges # << >>
    /\ Callback(cur, eff)
    /\ calls' = Append(calls, Call("edge", cur, 0, Head(edges)[1], Head(edges)[2], TRUE))
    /\ IF ApplyEffect(Self, eff).raised # ""
       THEN Halt /\ edges' = edges
       ELSE /\ edges' = Tail(edges)
            /\ IF Tail(edges) = << >> /\ todo = {} THEN Return ELSE pc' = pc
    /\ UNCHANGED << is_killed, positions, distances, i, k, todo, cur >>

\* draw() that sets the flag for a dead window but goes on to clear and draw
DrawNoEarlyReturn ==
    /\ pc = "idle"
    /\ LET g == execute_adds_and_removes(Self)
           top == << Step("draw"), Step("_execute_adds_and_removes"),
                     Step("is_killed") >>
       IN  /\ Store([g EXCEPT !.game_over = @ \/ is_killed])
           /\ todo' = g.active_objs
           /\ IF g.active_objs = {}
              THEN /\ calls' = top \o << Step("clear"), Step("update_frame") >>
                   /\ Return
              ELSE /\ calls' = top \o << Step("clear") >>
                   /\ pc' = "draw"
    /\ UNCHANGED << is_killed, xy, positions, distances, i, k, edges, cur,
                    effects >>

\* draw() that takes the objects to draw before it reconciles
DrawReadsBeforeReconcile ==
    /\ pc = "idle"
    /\ LET g == execute_adds_and_removes(Self)
           top == << Step("draw"), Step("_execute_adds_and_removes"),
                     Step("is_killed") >>
       IN  IF is_killed
           THEN /\ Store([g EXCEPT !.game_over = TRUE])
                /\ calls' = top
                /\ todo' = todo
                /\ Return
           ELSE /\ Store(g)
                /\ todo' = active_objs
                /\ IF active_objs = {}
                   THEN /\ calls' = top \o << Step("clear"), Step("update_frame") >>
                        /\ Return
                   ELSE /\ calls' = top \o << Step("clear") >>
                        /\ pc' = "draw"
    /\ UNCHANGED << is_killed, xy, positions, distances, i, k, edges, cur,
                    effects >>

\* draw() up to its first draw() call on an object
Draw ==
    /\ pc = "idle"
    /\ LET g == execute_adds_and_removes(Self)
           top == << Step("draw"), Step("_execute_adds_and_removes"),
                     Step("is_killed") >>
       IN  IF is_killed
           THEN /\ Store([g EXCEPT !.game_over = TRUE])
                /\ calls' = top
                /\ todo' = todo
                /\ Return
           ELSE /\ Store(g)
                /\ todo' = g.active_objs
                /\ IF g.active_objs = {}
                   THEN /\ calls' = top \o << Step("clear"), Step("update_frame") >>
                        /\ Return
                   ELSE /\ calls' = top \o << Step("clear") >>
                        /\ pc' = "draw"
    /\ UNCHANGED << is_killed, xy, positions, distances, i, k, edges, cur,
                    effects >>

\* the loop body for the next object o of the set, and update_frame after
\* the last one
DrawCall(o, eff) ==
    /\ pc = "draw"
    /\ o \in todo
    /\ Callback(o, eff)
    /\ LET drawn == Append(calls, Call("draw", o, 0, "", 0, TRUE))
       IN  IF ApplyEffect(Self, eff).raised # ""
           THEN calls' = drawn /\ todo' = todo /\ Halt
           ELSE /\ todo' = todo \ {o}
                /\ IF todo = {o}
                   THEN calls' = Append(drawn, Step("update_frame")) /\ Return
                   ELSE calls' = drawn /\ pc' = pc
    /\ UNCHANGED << is_killed, positions, distances, i, k, edges, cur >>

\* The program whose objects stay where they are and whose callbacks use
\* the registry of the game.
Next ==
    \/ \E param \in ParamNames, val \in BOOLEAN : CallConfigSet(param, val)
    \/ CallSetGameOver
    \/ \E o \in Objs : CallAddObj(o)
    \/ \E o \in Objs : CallRemoveObj(o)
    \/ KillWindow
    \/ \E order \in Orders(active_objs) : DoNearbyCalls(order)
    \/ \E eff \in RegistryEffects, ret \in BOOLEAN : NearbyCall(eff, ret)
    \/ DoMoveCalls
    \/ \E o \in Objs, eff \in RegistryEffects : MoveCall(o, eff)
    \/ DoEdgeCalls
    \/ \E o \in Objs : EdgeVisit(o)
    \/ \E eff \in RegistryEffects : EdgeCall(eff)
    \/ Draw
    \/ \E o \in Objs, eff \in RegistryEffects : DrawCall(o, eff)
    \/ Returned

Spec == Init /\ [][Next]_vars

\* The program whose objects start anywhere and whose callbacks move them:
\* the caller adds objects, sets the configuration and runs the phases and
\* draw(); nothing is removed and the game does not end.
InitMotion == Constructed /\ xy \in [Objs -> Points]

NextMotion ==
    \/ \E val \in BOOLEAN : CallConfigSet("account_for_radii_in_dist", val)
    \/ \E o \in Objs : CallAddObj(o)
    \/ \E order \in Orders(active_objs) : DoNearbyCalls(order)
    \/ \E eff \in MotionEffects, ret \in BOOLEAN : NearbyCall(eff, ret)
    \/ DoMoveCalls
    \/ \E o \in Objs, eff \in MotionEffects : MoveCall(o, eff)
    \/ DoEdgeCalls
    \/ \E o \in Objs : EdgeVisit(o)
    \/ \E eff \in MotionEffects : EdgeCall(eff)
    \/ Draw
    \/ \E o \in Objs, eff \in MotionEffects : DrawCall(o, eff)
    \/ Returned

SpecMotion == InitMotion /\ [][NextMotion]_vars

\* ------------------------------------------------------------- the claims

\* method is the method that is running or has just returned
Running(method) == calls # << >> /\ calls[1] = Step(method)

\* the record of draw() down to the liveness test
DrawTop ==
    << Step("draw"), Step("_execute_adds_and_removes"), Step("is_killed") >>

\* the draw() calls on the objects of order, one after the other
DrawCalls(order) ==
    [m \in 1 .. Len(order) |-> Call("draw", order[m], 0, "", 0, TRUE)]

\* C1 (as amended): one call of draw() runs, in this order and each once,
\* the reconciliation, the liveness test, clear, the draw() of every active
\* object and update_frame, and nothing else: the three phases are not part
\* of draw().  The objects drawn are those active after the reconciliation,
\* and nothing is pending after it but what the draw() callbacks ask for.
C1_DrawOrder ==
    /\ (pc = "draw" \/ (pc = "returned" /\ Running("draw"))) /\ effects = 0
          => pending_adds = {} /\ pending_removes = {}
    /\ pc = "draw"
          => /\ todo \subseteq active_objs
             /\ \E order \in Orders(active_objs \ todo) :
                    calls = DrawTop \o << Step("clear") >> \o DrawCalls(order)
    /\ pc = "returned" /\ Running("draw")
          => IF is_killed THEN calls = DrawTop
             ELSE \E order \in Orders(active_objs) :
                    calls = DrawTop \o << Step("clear") >> \o DrawCalls(order)
                              \o << Step("update_frame") >>

\* C1, witness: a draw() of two or more objects has run to its end
C1_Witness ==
    /\ pc = "returned"
    /\ Running("draw")
    /\ ~ is_killed
    /\ Cardinality(active_objs) >= 2
    /\ calls[Len(calls)] = Step("update_frame")

\* C1 as claimed: between clear and the draw() calls, draw() runs the
\* nearby() calls, a move() of every active object and the edge() calls
C1_DrawRunsPhases ==
    pc = "returned" /\ Running("draw") /\ ~ is_killed
        => \E a, b, c \in 4 .. Len(calls) :
              /\ a <= b /\ b <= c /\ c < Len(calls)
              /\ calls[4] = Step("clear")
              /\ \A m \in 5 .. a : calls[m].fn = "nearby"
              /\ \A m \in a + 1 .. b : calls[m].fn = "move"
              /\ { calls[m].obj : m \in a + 1 .. b } = active_objs
              /\ b - a = Cardinality(active_objs)
              /\ \A m \in b + 1 .. c : calls[m].fn = "edge"
              /\ \A m \in c + 1 .. Len(calls) - 1 : calls[m].fn = "draw"
              /\ { calls[m].obj : m \in c + 1 .. Len(calls) - 1 } = active_objs
              /\ Len(calls) - 1 - c = Cardinality(active_objs)
              /\ calls[Len(calls)] = Step("update_frame")

\* C2: the reconciliation at the top of draw() leaves active = (A \ R) u P
\* and both pending sets empty, in the state draw() is called in and for
\* every other A, R and P
C2_Reconcile ==
    [][Draw =>
        /\ active_objs' = (active_objs \ pending_removes) \cup pending_adds
        /\ pending_removes' = {}
        /\ pending_adds' = {}
        /\ \A A, R, P \in SUBSET Objs :
              LET g == execute_adds_and_removes(
                          [Self EXCEPT !.active_objs = A,
                                       !.pending_removes = R,
                                       !.pending_adds = P])
              IN  /\ g.active_objs = (A \ R) \cup P
                  /\ g.pending_removes = {}
                  /\ g.pending_adds = {}
                  /\ g.game_over = game_over
                  /\ g.account_for_radii_in_dist = account_for_radii_in_dist
      ]_vars

\* C2, witness: draw() has reconciled, and some objects are active and
\* some are not
C2_Witness ==
    /\ Running("draw")
    /\ calls[2] = Step("_execute_adds_and_removes")
    /\ pending_adds = {}
    /\ pending_removes = {}
    /\ active_objs # {}
    /\ active_objs # Objs

AddEffect(e) == [op |-> "add_obj", obj |-> e, pt |-> <<0, 0>>]

RemoveEffect(e) == [op |-> "remove_obj", obj |-> e, pt |-> <<0, 0>>]

\* a step in which the caller or a callback calls game.method(e)
Called(eff, direct) ==
    \/ direct
    \/ \E ret \in BOOLEAN : NearbyCall(eff, ret)
    \/ \E o \in Objs : MoveCall(o, eff)
    \/ EdgeCall(eff)
    \/ \E o \in Objs : DrawCall(o, eff)

\* C3: add_obj(e) fails, with the three sets unchanged, when e is active or
\* pending-add; otherwise it adds e to pending-add only, and e is not active
C3_AddObj ==
    [][\A e \in Objs :
          Called(AddEffect(e), CallAddObj(e)) =>
             IF e \in active_objs \/ e \in pending_adds
             THEN /\ raised' = "add_obj"
                  /\ pc' = "halted"
                  /\ UNCHANGED << active_objs, pending_adds, pending_removes >>
             ELSE /\ raised' = ""
                  /\ pending_adds' = pending_adds \cup {e}
                  /\ e \notin active_objs'
                  /\ UNCHANGED << active_objs, pending_removes >>
      ]_vars

\* C3, witness: an add_obj of an object already added has failed
C3_Witness == raised = "add_obj" /\ pc = "halted" /\ pending_adds # {}

\* C4: remove_obj(e) fails, with the three sets unchanged, when e is not
\* active; otherwise it adds e to pending-remove, and when e is pending-remove
\* already it raises nothing and changes nothing
C4_RemoveObj ==
    [][\A e \in Objs :
          Called(RemoveEffect(e), CallRemoveObj(e)) =>
             /\ IF e \notin active_objs
                THEN /\ raised' = "remove_obj"
                     /\ pc' = "halted"
                     /\ UNCHANGED << active_objs, pending_adds, pending_removes >>
                ELSE /\ raised' = ""
                     /\ pending_removes' = pending_removes \cup {e}
                     /\ UNCHANGED << active_objs, pending_adds >>
             /\ e \in pending_removes =>
                   /\ raised' = ""
                   /\ UNCHANGED << active_objs, pending_adds, pending_removes >>
      ]_vars

\* C4, witness: a remove_obj of an active object has been accepted
C4_Witness ==
    /\ pc = "idle"
    /\ raised = ""
    /\ pending_removes # {}
    /\ pending_removes \subseteq active_objs

\* the objects the running loop is still to call or to pass to a call
InLoop ==
    todo \cup { positions[m][1] : m \in 1 .. Len(positions) }
         \cup (IF edges # << >> THEN {cur} ELSE {})

\* C5: the active set changes in the reconciliation of draw() only, so an
\* object added while a phase runs takes no part in its loop
C5_ActiveOnlyInReconcile ==
    [][/\ active_objs' # active_objs => Draw
       /\ pc' \in {"nearby", "move", "edge", "draw"} =>
             /\ InLoop' \subseteq active_objs'
             /\ InLoop' \cap pending_adds' = {}
      ]_vars

\* C5, witness: a callback of a phase has added an object and the phase
\* goes on
C5_Witness ==
    /\ pc \in {"nearby", "move", "edge"}
    /\ effects = 1
    /\ pending_adds # {}
    /\ pending_removes = {}
    /\ ~ game_over

\* the list distances is as do_nearby_calls expects it for the list posns
RecordsOK(posns, dists) ==
    LET n == Len(posns)
    IN  /\ Len(dists) = n * (n - 1)
        /\ \A ii \in 0 .. n - 1 :
              /\ Cardinality({ m \in 1 .. Len(dists) : dists[m][1] = ii }) = n - 1
              /\ \A kk \in 0 .. n - 2 : Entry(dists, n, ii, kk)[1] = ii
        /\ \A a, b \in 0 .. n - 1 :
              a < b =>
                 \E m1, m2 \in 1 .. Len(dists) :
                    /\ dists[m1][1] = a /\ dists[m1][3] = b
                    /\ dists[m2][1] = b /\ dists[m2][3] = a
                    /\ dists[m1][2] = dists[m2][2]

\* C6: for n active objects do_nearby_calls builds n*(n-1) records, n-1 for
\* each left-hand index and those in its slice, so that neither assert
\* fails, and for every pair both directions with the same dist
C6_Records ==
    /\ raised # "do_nearby_calls"
    /\ \A order \in Orders(active_objs) :
          RecordsOK(Snapshot(order, xy),
                    Distances(Snapshot(order, xy), account_for_radii_in_dist))
    /\ pc = "nearby" => RecordsOK(positions, distances)

\* C6, witness: the records of three objects, with the radii subtracted
C6_Witness ==
    /\ pc = "nearby"
    /\ Len(positions) = 3
    /\ Len(distances) = 6
    /\ account_for_radii_in_dist

\* the index of object o in the list positions
IndexOf(o) == CHOOSE m \in 1 .. Len(positions) : positions[m][1] = o

\* C7: in the block of one left-hand object the distances passed to
\* nearby() do not decrease, and of two candidates at the same distance
\* the one with the smaller index in positions comes first
C7_BlockOrder ==
    Running("do_nearby_calls") =>
       \A m \in 2 .. Len(calls) - 1 :
          calls[m].obj = calls[m + 1].obj =>
             /\ calls[m].val <= calls[m + 1].val
             /\ calls[m].val = calls[m + 1].val =>
                   IndexOf(calls[m].other) < IndexOf(calls[m + 1].other)

\* C7, witness: a block with two candidates at the same distance, after a
\* block with two candidates at different distances
C7_Witness ==
    /\ Running("do_nearby_calls")
    /\ \E m, q \in 2 .. Len(calls) - 1 :
          /\ calls[m].obj = calls[m + 1].obj
          /\ calls[m].val < calls[m + 1].val
          /\ calls[q].obj = calls[q + 1].obj
          /\ calls[q].val = calls[q + 1].val

\* the nearby() calls made on object left so far
BlockOf(left) ==
    LET OnLeft(c) == c.fn = "nearby" /\ c.obj = left
    IN  SelectSeq(calls, OnLeft)

\* C8: the calls on a left-hand object are the entries of its slice, in
\* order, up to the first that returns False; a finished slice was
\* delivered whole unless its own last call returned False, whatever the
\* calls on the other objects returned
C8_EarlyTermination ==
    Running("do_nearby_calls") =>
       LET n == Len(positions)
       IN  \A ii \in 0 .. n - 1 :
              LET block == BlockOf(positions[ii + 1][1])
              IN  /\ Len(block) <= n - 1
                  /\ \A m \in 1 .. Len(block) :
                        LET entry == Entry(distances, n, ii, m - 1)
                        IN  /\ block[m].other = positions[entry[3] + 1][1]
                            /\ block[m].val = entry[2]
                  /\ \A m \in 1 .. Len(block) - 1 : block[m].ret
                  /\ pc = "returned" \/ (pc = "nearby" /\ ii < i) =>
                        \/ Len(block) = n - 1
                        \/ Len(block) >= 1 /\ ~ block[Len(block)].ret
                  /\ pc = "nearby" /\ ii = i => Len(block) = k
                  /\ pc = "nearby" /\ ii > i => block = << >>

\* C8, witness: the first object stopped at its first candidate and a
\* later object got both of its calls
C8_Witness ==
    /\ Running("do_nearby_calls")
    /\ pc = "returned"
    /\ Len(positions) = 3
    /\ Len(calls) >= 5
    /\ ~ calls[2].ret
    /\ calls[3].obj # calls[2].obj
    /\ calls[3].ret
    /\ calls[4].obj = calls[3].obj

\* The nearby() calls <<left, right, dist>> of one do_nearby_calls, from
\* entry kk of slice ii on, when the set is enumerated as the list posns
\* was built and left.nearby(right, ...) returns res[left, right]
RECURSIVE Deliver(_, _, _, _, _)
Deliver(posns, dists, res, ii, kk) ==
    LET n == Len(posns)
    IN  IF n < 2 \/ ii >= n THEN << >>
        ELSE LET entry == Entry(dists, n, ii, kk)
                 left == posns[entry[1] + 1][1]
                 right == posns[entry[3] + 1][1]
                 next == Advance(n, ii, kk, res[left, right])
             IN  << << left, right, entry[2] >> >>
                    \o Deliver(posns, dists, res, next[1], next[2])

\* the calls of a whole do_nearby_calls in the present state
NearbySeq(order, res) ==
    LET posns == Snapshot(order, xy)
    IN  Deliver(posns, Distances(posns, account_for_radii_in_dist), res, 0, 0)

\* every nearby() returns True
AllTrue == [pair \in Objs \X Objs |-> TRUE]

\* the distances passed to object left, in the order of the calls
DistsTo(seq, left) ==
    LET OnLeft(c) == c[1] = left
        block == SelectSeq(seq, OnLeft)
    IN  [m \in 1 .. Len(block) |-> block[m][3]]

\* the place of object o in the enumeration order
PlaceIn(order, o) == CHOOSE m \in 1 .. Len(order) : order[m] = o

\* C9 as claimed: where do_nearby_calls may be called, the sequence of its
\* nearby() calls is the same for every order in which the active set may
\* be enumerated
C9_OrderIndependent ==
    pc = "idle" =>
       \A o1, o2 \in Orders(active_objs) :
          \A res \in [Objs \X Objs -> BOOLEAN] :
             NearbySeq(o1, res) = NearbySeq(o2, res)

\* the calls seq are made block by block in the enumeration order, and
\* the candidates of a block that are at the same distance in that order too
FollowsOrder(order, seq) ==
    \A m \in 1 .. Len(seq) - 1 :
       /\ PlaceIn(order, seq[m][1]) <= PlaceIn(order, seq[m + 1][1])
       /\ seq[m][1] = seq[m + 1][1] /\ seq[m][3] = seq[m + 1][3] =>
             PlaceIn(order, seq[m][2]) < PlaceIn(order, seq[m + 1][2])

\* the same calls, and the same distances to every left-hand object
SameCalls(s1, s2) ==
    /\ { s1[m] : m \in 1 .. Len(s1) } = { s2[m] : m \in 1 .. Len(s2) }
    /\ \A left \in active_objs : DistsTo(s1, left) = DistsTo(s2, left)

\* C9 (as amended): where do_nearby_calls may be called, whatever the
\* enumeration order, the same calls <<left, right, dist>> are made when no
\* nearby() returns False, and every left-hand object is passed the same
\* sequence of distances; the blocks come in the enumeration order, and so
\* do the candidates of a block that are at the same distance
C9_OrderDependence ==
    pc = "idle" =>
       \A o1 \in Orders(active_objs) :
          \A s1 \in { NearbySeq(o1, AllTrue) } :
             /\ Len(s1) = Len(o1) * (Len(o1) - 1)
             /\ FollowsOrder(o1, s1)
             /\ \A o2 \in Orders(active_objs) :
                   \A s2 \in { NearbySeq(o2, AllTrue) } : SameCalls(s1, s2)

\* C9, witness: do_nearby_calls runs on three objects, two of them at the
\* same distance from the third, with the radii subtracted
C9_Witness ==
    /\ pc = "nearby"
    /\ Len(positions) = 3
    /\ account_for_radii_in_dist
    /\ calls = << Step("do_nearby_calls") >>
    /\ \E a, b, c \in 1 .. 6 :
          /\ a # b
          /\ distances[a][1] = distances[b][1]
          /\ distances[a][2] = distances[b][2]
          /\ distances[c][2] # distances[a][2]

TestNames == << "left", "top", "right", "bottom" >>

Shown ==
    { m \in 1 .. Len(calls) :
         \/ calls[m] \in { Step("clear"), Step("update_frame") }
         \/ calls[m].fn = "draw" /\ calls[m].obj # 0 }

\* C11: a draw() called when the window is dead reconciles, sets the
\* game-over flag so that is_over() is true, and returns at once: it makes
\* no clear, no draw() call on an object and no update_frame
C11_DeadSurface ==
    [][Draw /\ is_killed =>
          /\ game_over'
          /\ is_over'
          /\ pc' = "returned"
          /\ calls' = DrawTop
          /\ Shown' = {}
      ]_vars

\* C11, witness: a game that was running, with objects to draw, is over
\* after a draw() that found the window dead
C11_Witness ==
    /\ pc = "returned"
    /\ Running("draw")
    /\ is_killed
    /\ is_over
    /\ Cardinality(active_objs) >= 2
    /\ calls = DrawTop

\* C12: once is_over() is true it stays true, whatever is called
C12_OverIsTerminal == [][is_over => is_over']_vars

\* C12, witness: the game is over, the window is alive, and a later draw()
\* has drawn the objects and shown the frame
C12_Witness ==
    /\ is_over
    /\ ~ is_killed
    /\ pc = "returned"
    /\ Running("draw")
    /\ active_objs # {}
    /\ calls[Len(calls)] = Step("update_frame")

\* names a caller may pass to config_set
OtherNames == { "unknownOption", "", "account_for_radii", "ACCOUNT_FOR_RADII_IN_DIST" }

\* C13: config_set with a name other than "account_for_radii_in_dist"
\* fails and changes neither the option, nor the three sets, nor the
\* game-over flag; with that name it sets the option to the value given and
\* changes nothing else
C13_ConfigSet ==
    [][\A val \in BOOLEAN :
          /\ \A param \in ParamNames :
                CallConfigSet(param, val) =>
                   IF param = "account_for_radii_in_dist"
                   THEN /\ account_for_radii_in_dist' = val
                        /\ raised' = ""
                        /\ pc' = "idle"
                        /\ UNCHANGED << active_objs, pending_adds,
                                        pending_removes, game_over >>
                   ELSE /\ raised' = "config_set"
                        /\ pc' = "halted"
                        /\ UNCHANGED << account_for_radii_in_dist, active_objs,
                                        pending_adds, pending_removes, game_over >>
          /\ \A param \in OtherNames :
                config_set(Self, param, val) = Raise(Self, "config_set")
          /\ config_set(Self, "account_for_radii_in_dist", val)
                = [Self EXCEPT !.account_for_radii_in_dist = val]
      ]_vars

\* C13, witness: the option was set to True, objects were added, and then
\* a config_set with an unknown name failed
C13_Witness ==
    /\ raised = "config_set"
    /\ pc = "halted"
    /\ account_for_radii_in_dist
    /\ active_objs # {}
    /\ pending_adds # {}

\* C14 as claimed: a remove_obj(e) called while e is pending-add is a call
\* the game goes on from: the next reconciliation makes e active, and a
\* remove_obj(e) after it is accepted
C14_AddThenRemove ==
    [][\A e \in Objs :
          Called(RemoveEffect(e), CallRemoveObj(e)) /\ e \in pending_adds =>
             /\ raised' = ""
             /\ pc' # "halted"
             /\ LET g == execute_adds_and_removes(Self')
                IN  /\ e \in g.active_objs
                    /\ remove_obj(g, e).raised = ""
      ]_vars

\* C14 (as amended): a remove_obj(e) called while e is pending-add, and so
\* not active, fails; it leaves e pending-add and not pending-remove, and
\* the three sets as they were.  The pending add is not cancelled: a
\* reconciliation of these sets makes e active, and a remove_obj(e) after
\* that is accepted and makes e pending-remove
C14_RemoveOfPendingAddFails ==
    [][\A e \in Objs :
          Called(RemoveEffect(e), CallRemoveObj(e)) /\ e \in pending_adds =>
             /\ e \notin active_objs
             /\ raised' = "remove_obj"
             /\ pc' = "halted"
             /\ UNCHANGED << active_objs, pending_adds, pending_removes >>
             /\ e \notin pending_removes'
             /\ LET g == execute_adds_and_removes([Self' EXCEPT !.raised = ""])
                    h == remove_obj(g, e)
                IN  /\ e \in g.active_objs
                    /\ h.raised = ""
                    /\ e \in h.pending_removes
                    /\ e \in h.active_objs
      ]_vars

\* C14, witness: every object is pending-add, none is active, and a
\* remove_obj has failed
C14_Witness ==
    /\ raised = "remove_obj"
    /\ pc = "halted"
    /\ active_objs = {}
    /\ pending_adds = Objs
    /\ pending_removes = {}

\* C15: in every state no object is both pending-add and pending-remove,
\* every pending-remove object is active and no pending-add object is active
C15_PendingSets ==
    /\ pending_adds \cap pending_removes = {}
    /\ pending_removes \subseteq active_objs
    /\ pending_adds \cap active_objs = {}

\* C15, witness: after a reconciliation, with nothing failed, an object is
\* pending-add, another is pending-remove and a third is active only
C15_Witness ==
    /\ raised = ""
    /\ pc = "idle"
    /\ pending_adds # {}
    /\ pending_removes # {}
    /\ active_objs # pending_removes

\* the distance of objects a and b where they are now
DistNow(a, b) ==
    PairDist(Snapshot(<< a, b >>, xy), account_for_radii_in_dist, 0, 1)

\* the distance of objects a and b as the list posns has them
DistSnapshot(posns, radii, a, b) ==
    LET At(o) == CHOOSE m \in 1 .. Len(posns) : posns[m][1] = o
    IN  PairDist(posns, radii, At(a) - 1, At(b) - 1)

\* C16: do_nearby_calls reads the position of every active object once,
\* before its first nearby() call; the list is not touched by the calls,
\* and the distance passed to every nearby() of the pass is the one between
\* the positions of the list, also after a callback of the pass has moved
\* an object
C16_SnapshotDistances ==
    [][/\ \A order \in Orders(active_objs) :
             DoNearbyCalls(order) =>
                /\ positions' = Snapshot(order, xy)
                /\ calls' = << Step("do_nearby_calls") >>
       /\ pc = "nearby" =>
             /\ positions' = positions
             /\ distances' = distances
             /\ pc' # "halted" => Len(calls') = Len(calls) + 1
       /\ pc' \in {"nearby", "returned"} /\ Running("do_nearby_calls")' =>
             \A m \in 2 .. Len(calls') :
                /\ calls'[m].fn = "nearby"
                /\ calls'[m].val =
                      DistSnapshot(positions', account_for_radii_in_dist',
                                   calls'[m].obj, calls'[m].other)
      ]_vars

\* C16, witness: a nearby() callback has moved its object, and two calls
\* of the pass were passed a distance that is not the distance of the pair
\* now: the later of them was made after the move
C16_Witness ==
    /\ Running("do_nearby_calls")
    /\ effects = 1
    /\ \E m, q \in 2 .. Len(calls) :
          /\ m < q
          /\ calls[m].val # DistNow(calls[m].obj, calls[m].other)
          /\ calls[q].val # DistNow(calls[q].obj, calls[q].other)

\* the calls of the record made on object o
CallsOn(log, o) ==
    LET OnO(c) == c.obj = o
    IN  SelectSeq(log, OnO)

\* the objects of the list posns
ObjectsOf(posns) == { posns[m][1] : m \in 1 .. Len(posns) }

\* the edge() calls do_edge_calls makes on object o where it is
EdgeCallsOn(o) ==
    LET due == EdgeChecks(xy[o][1], xy[o][2], get_radius(o))
    IN  [m \in 1 .. Len(due) |-> Call("edge", o, 0, due[m][1], due[m][2], TRUE)]

\* C17: a remove_obj(e) that is accepted leaves e active and changes
\* nothing a running loop goes by; every phase takes all active objects,
\* the pending-remove ones too, and at its return has called move() on each
\* of them once, edge() on each as its place demands, and nearby() on and
\* with each of them; the reconciliation of draw() takes the pending-remove
\* objects out of the active set and draw() draws the active ones only; an
\* object that is not active gets no call and is not passed to one, and
\* becomes active by a pending add only
C17_DeferredRemoval ==
    [][/\ \A e \in Objs :
             Called(RemoveEffect(e), CallRemoveObj(e)) /\ pc' # "halted" =>
                /\ e \in active_objs'
                /\ active_objs' = active_objs
                /\ positions' = positions
                /\ distances' = distances
                /\ e \in todo /\ pc \in {"move", "edge"} /\ ~ MoveCall(e, RemoveEffect(e))
                      => e \in todo'
       /\ DoMoveCalls \/ DoEdgeCalls =>
             todo' = active_objs /\ pending_removes \subseteq todo'
       /\ \A order \in Orders(active_objs) :
             DoNearbyCalls(order) => ObjectsOf(positions') = active_objs
       /\ Draw =>
             /\ active_objs' \cap pending_removes = {}
             /\ pc' = "draw" => todo' = active_objs'
       /\ \A e \in Objs :
             e \notin active_objs /\ e \in active_objs' => e \in pending_adds /\ Draw
       /\ \A m \in 1 .. Len(calls') :
             calls'[m].obj # 0 =>
                /\ calls'[m].obj \in active_objs'
                /\ calls'[m].fn = "nearby" => calls'[m].other \in active_objs'
       /\ pc' = "returned" /\ Running("do_move_calls")' =>
             \A o \in active_objs' :
                CallsOn(calls', o) = << Call("move", o, 0, "", 0, TRUE) >>
       /\ pc' = "returned" /\ Running("do_edge_calls")' =>
             \A o \in active_objs' : CallsOn(calls', o) = EdgeCallsOn(o)'
       /\ pc' = "returned" /\ Running("do_nearby_calls")' =>
             \A o \in active_objs' :
                LET block == CallsOn(calls', o)
                    n == Cardinality(active_objs')
                IN  /\ n >= 2 => block # << >>
                    /\ \/ Len(block) = n - 1
                          /\ { block[m].other : m \in 1 .. n - 1 }
                                = active_objs' \ {o}
                       \/ ~ block[Len(block)].ret
      ]_vars

\* C17, witness: in do_move_calls on three objects the callback of the
\* first object called has asked for the removal of another object, which
\* the loop has yet to call
C17_Witness ==
    /\ pc = "move"
    /\ Cardinality(active_objs) = 3
    /\ Len(calls) = 2
    /\ effects = 1
    /\ pending_adds = {}
    /\ ~ game_over
    /\ pending_removes # {}
    /\ pending_removes \subseteq todo

\* C18 as claimed: the object do_edge_calls takes gets an edge() call for
\* every edge its centre is within its radius of, touching included: left
\* iff x <= r, top iff y <= r, right iff width - x <= r and bottom iff
\* height - y <= r
C18_TouchingEdges ==
    [][\A o \in Objs :
          EdgeVisit(o) =>
             LET x == xy[o][1]
                 y == xy[o][2]
                 r == get_radius(o)
                 sides == { edges'[m][1] : m \in 1 .. Len(edges') }
             IN  /\ "left" \in sides <=> x <= r
                 /\ "top" \in sides <=> y <= r
                 /\ "right" \in sides <=> Wid - x <= r
                 /\ "bottom" \in sides <=> Hei - y <= r
      ]_vars

\* C18, witness: do_edge_calls has returned, no callback has done
\* anything, and an active object whose centre is at its radius from the
\* left edge and at its radius from the bottom edge got edge("bottom",
\* height) and no edge("left", 0)
C18_Witness ==
    /\ pc = "returned"
    /\ Running("do_edge_calls")
    /\ effects = 0
    /\ \E o \in active_objs :
          /\ xy[o][1] = get_radius(o)
          /\ Hei - xy[o][2] = get_radius(o)
          /\ \A m \in 1 .. Len(calls) :
                ~ (calls[m].obj = o /\ calls[m].side = "left")
          /\ \E m \in 1 .. Len(calls) :
                calls[m].obj = o /\ calls[m].side = "bottom" /\ calls[m].val = Hei

GameOverEffect == [op |-> "set_game_over", obj |-> 0, pt |-> <<0, 0>>]

\* the record of a draw() that goes on past the liveness test, up to clear
DrawGoesOn == DrawTop \o << Step("clear") >>

\* C19 as claimed: a set_game_over() from a callback of a phase does not
\* interrupt the phase, and the next draw() observes that the game is over:
\* it does not go on as the draw() of a running game does
C19_ObservedByDraw ==
    [][/\ \A ret \in BOOLEAN :
             NearbyCall(GameOverEffect, ret) \/ EdgeCall(GameOverEffect)
                \/ (\E o \in Objs : MoveCall(o, GameOverEffect))
                => pc' # "halted"
       /\ Draw /\ is_over /\ ~ is_killed =>
             /\ calls' # DrawGoesOn
             /\ calls' # DrawGoesOn \o << Step("update_frame") >>
      ]_vars

\* C19 (as amended): a set_game_over() from a nearby(), move() or edge()
\* callback sets the flag, which is_over() returns from then on, and
\* changes nothing else: the loop goes on with the entry, object or test it
\* would go on with otherwise, and at its return the phase has made all of
\* its calls.  No method of the game reads the flag: the next draw(), the
\* window alive, reconciles, clears, draws every active object and shows the
\* frame as it does when the flag is not set
C19_Cooperative ==
    [][/\ \A ret \in BOOLEAN :
             NearbyCall(GameOverEffect, ret) =>
                LET n == Len(positions)
                    next == Advance(n, i, k, ret)
                IN  /\ i' = next[1]
                    /\ k' = next[2]
                    /\ pc' = IF next[1] < n THEN "nearby" ELSE "returned"
                    /\ Len(calls') = Len(calls) + 1
       /\ \A o \in Objs :
             MoveCall(o, GameOverEffect) =>
                /\ todo' = todo \ {o}
                /\ pc' = IF todo' = {} THEN "returned" ELSE "move"
       /\ EdgeCall(GameOverEffect) =>
             /\ edges' = Tail(edges)
             /\ todo' = todo
             /\ pc' = IF edges' = << >> /\ todo = {} THEN "returned" ELSE "edge"
       /\ (\E ret \in BOOLEAN : NearbyCall(GameOverEffect, ret))
             \/ (\E o \in Objs : MoveCall(o, GameOverEffect))
             \/ EdgeCall(GameOverEffect)
             => /\ is_over'
                /\ raised' = ""
                /\ UNCHANGED << active_objs, pending_adds, pending_removes,
                                account_for_radii_in_dist, is_killed, xy,
                                positions, distances >>
       /\ is_over' /\ pc' = "returned" /\ Running("do_move_calls")' =>
             \A o \in active_objs' : Len(CallsOn(calls', o)) = 1
       /\ is_over' /\ pc' = "returned" /\ Running("do_edge_calls")' =>
             \A o \in active_objs' : CallsOn(calls', o) = EdgeCallsOn(o)'
       /\ is_over' /\ pc' = "returned" /\ Running("do_nearby_calls")' =>
             \A o \in active_objs' :
                \/ Len(CallsOn(calls', o)) = Cardinality(active_objs') - 1
                \/ ~ CallsOn(calls', o)[Len(CallsOn(calls', o))].ret
       /\ Draw /\ is_over /\ ~ is_killed =>
             /\ is_over'
             /\ active_objs' = (active_objs \ pending_removes) \cup pending_adds
             /\ todo' = active_objs'
             /\ calls' = IF active_objs' = {}
                         THEN DrawGoesOn \o << Step("update_frame") >>
                         ELSE DrawGoesOn
             /\ pc' = IF active_objs' = {} THEN "returned" ELSE "draw"
      ]_vars

\* C19, witness: in do_move_calls on three objects the callback of the
\* first object called has called set_game_over(), and the loop has two
\* objects yet to call
C19_Witness ==
    /\ pc = "move"
    /\ is_over
    /\ effects = 1
    /\ pending_adds = {}
    /\ pending_removes = {}
    /\ Len(calls) = 2
    /\ Cardinality(todo) = 2

\* the object a callback is called on and, for nearby(), the object passed
\* to it
Receivers(c) == { c.obj } \cup (IF c.fn = "nearby" THEN { c.other } ELSE {})

\* C20: when a nearby(), move(), edge() or draw() callback is called, the
\* object it is called on and the object passed to nearby() are active, so
\* that a remove_obj of either from inside the callback is accepted, also
\* when the object is pending-remove already
C20_ReceiversAreActive ==
    [][Len(calls') > Len(calls) /\ pc \in {"nearby", "move", "edge", "draw"} =>
          LET c == calls'[Len(calls) + 1]
          IN  /\ c.fn \in {"nearby", "move", "edge", "draw"}
              /\ c.obj # 0
              /\ Receivers(c) \subseteq active_objs
              /\ \A e \in Receivers(c) :
                    /\ remove_obj(Self, e).raised = ""
                    /\ e \in remove_obj(Self, e).pending_removes
                    /\ Called(RemoveEffect(e), FALSE) =>
                          /\ raised' = ""
                          /\ pc' # "halted"
                          /\ e \in pending_removes'
                          /\ e \in active_objs'
      ]_vars

\* C20, witness: do_nearby_calls runs on two objects that are pending-remove
\* both, and the callback of its first nearby() call has called remove_obj,
\* which was accepted
C20_Witness ==
    /\ pc = "nearby"
    /\ Running("do_nearby_calls")
    /\ Len(calls) = 2
    /\ Cardinality(active_objs) = 2
    /\ pending_removes = active_objs
    /\ pending_adds = {}
    /\ ~ is_over
    /\ effects = 1
    /\ raised = ""

====
